---- MODULE Spec2Model ----
(***************************************************************************)
(* Model of package gogit (src/git.go): a Repo handle that shells out to   *)
(* git and parses its text output.                                         *)
(*                                                                         *)
(* Text is a sequence of one-character strings, so that the string         *)
(* functions of the code (Split, Fields, HasPrefix, Index, Contains,       *)
(* slicing) are computed character by character.  Every external command   *)
(* is one step: the environment chooses its exit status and its output,    *)
(* and the step is appended to `log`.  The result of os.Stat is chosen by  *)
(* the environment at the step that asks for it.  Calls between the        *)
(* methods of Repo go through `stack` (the continuations) and `rv` (the    *)
(* returned values).                                                       *)
(***************************************************************************)
EXTENDS Integers, Sequences, FiniteSets, TLC

VARIABLES
    pc,            \* the code position: "idle", or the function/label running
    stack,         \* continuation labels of the callers, innermost first
    op,            \* the top-level operation running (or last run)
    handle,        \* TRUE when the caller holds a *Repo returned by New
    repo,          \* the Repo struct (URL, Name, WorkDir, RepoDir)
    arg,           \* the arguments of the function being entered
    local,         \* locals and parameters of the functions on the stack
    rv,            \* the values returned by the last function that returned
    log,           \* external commands run by the current operation, in order
    calls          \* functions entered by the current operation, in order

vars == <<pc, stack, op, handle, repo, arg, local, rv, log, calls>>

----------------------------------------------------------------------------
(* Bounds of the inputs.                                                   *)

MaxBranchLines == 2
MaxStatusLines == 2
MaxDiffLines == 2
MaxLogLines == 3

----------------------------------------------------------------------------
(* Go's strings package, on sequences of characters.                       *)

\* s[lo:hi] and s[lo:], with Go's 0-based half-open indices.
Slice(s, lo, hi) == SubSeq(s, lo + 1, hi)
SliceFrom(s, lo) == SubSeq(s, lo + 1, Len(s))

HasPrefix(s, p) == Len(s) >= Len(p) /\ Slice(s, 0, Len(p)) = p
HasSuffix(s, p) == Len(s) >= Len(p) /\ SliceFrom(s, Len(s) - Len(p)) = p

RECURSIVE IndexFrom(_, _, _)
IndexFrom(s, sub, i) ==
    IF i + Len(sub) > Len(s) THEN -1
    ELSE IF Slice(s, i, i + Len(sub)) = sub THEN i
    ELSE IndexFrom(s, sub, i + 1)

\* strings.Index: the 0-based position of the first occurrence, or -1.
Index(s, sub) == IndexFrom(s, sub, 0)

Contains(s, sub) == Index(s, sub) >= 0

\* strings.Split with a non-empty separator: never the empty list.
RECURSIVE Split(_, _)
Split(s, sep) ==
    LET i == Index(s, sep)
    IN  IF i < 0 THEN <<s>>
        ELSE <<Slice(s, 0, i)>> \o Split(SliceFrom(s, i + Len(sep)), sep)

IsSpace(c) == c \in {" ", "\t", "\n", "\r", "\f"}

RECURSIVE SkipSpace(_)
SkipSpace(s) ==
    IF s # <<>> /\ IsSpace(Head(s)) THEN SkipSpace(Tail(s)) ELSE s

RECURSIVE WordLen(_)
WordLen(s) ==
    IF s = <<>> \/ IsSpace(Head(s)) THEN 0 ELSE 1 + WordLen(Tail(s))

\* strings.Fields: the maximal runs of non-space characters.
RECURSIVE Fields(_)
Fields(s) ==
    LET t == SkipSpace(s)
        n == WordLen(t)
    IN  IF t = <<>> THEN <<>>
        ELSE <<Slice(t, 0, n)>> \o Fields(SliceFrom(t, n))

\* path.Join of two elements without "." or ".." segments: empty elements
\* are dropped, the others joined by one slash.
Join(a, b) ==
    IF b = <<>> THEN a
    ELSE IF a = <<>> THEN b
    ELSE a \o <<"/">> \o b

----------------------------------------------------------------------------
(* Errors: the chain of messages, outermost first; nil is the empty chain. *)

Nil == <<>>
errorsNew(m) == << <<m, "">> >>
\* pkg/errors.Wrap returns nil when the wrapped error is nil.
errorsWrap(e, m, detail) == IF e = Nil THEN Nil ELSE << <<m, detail>> >> \o e

----------------------------------------------------------------------------
(* Literal texts of the code.                                              *)

NL == <<"\n">>
Slash == <<"/">>
Space == <<" ">>
Star == <<"*">>
Dot == <<".">>
Colon == <<":">>
DotGit == <<".", "g", "i", "t">>
CommitWord == <<"c", "o", "m", "m", "i", "t">>
UpToDate == <<"u", "p", "-", "t", "o", "-", "d", "a", "t", "e">>
WorkingDirectoryClean == <<"w", "o", "r", "k", "i", "n", "g", " ", "d", "i", "r", "e", "c", "t", "o", "r", "y", " ", "c", "l", "e", "a", "n">>
RebaseFlag == <<"-", "-", "r", "e", "b", "a", "s", "e">>
DashM == <<"-", "m">>
Head_ == <<"H", "E", "A", "D">>

----------------------------------------------------------------------------
(* Inputs: what the callers pass and what git prints.                      *)

\* The lines of a text, each ended by a newline, as git prints them.
RECURSIVE Unlines(_)
Unlines(ls) == IF ls = <<>> THEN <<>> ELSE Head(ls) \o NL \o Unlines(Tail(ls))

Texts(lines, n) == { Unlines(ls) : ls \in UNION { [1..k -> lines] : k \in 0..n } }

URLs == { <<>>, <<"h", "/", "r", ".", "g", "i", "t">>, <<"r">> }
WorkDirs == { <<"w">> }
Branches == { <<"m">>, <<"d">> }
CloneDirs == { <<"d">> }
Messages == { <<"m">> }
Patterns == { Dot, <<"f">> }
Paths == { <<"f">> }
Commits == { <<"a">>, <<"b">> }

BranchLines == { <<"*", " ", "m">>, <<" ", " ", "d">>, <<"*">>, <<"*", " ">> }
StatusLines == { UpToDate, WorkingDirectoryClean, <<"w", "o", "r", "k", "i", "n", "g", " ", "t", "r", "e", "e", " ", "c", "l", "e", "a", "n">> }
DiffLines == { <<"A", "\t", "n">>, <<"M", "\t", "o">>, <<"D", " ", "g">>, <<"R", "1", "0", "0", "\t", "r">>, <<"A">>, <<"M", "\t", "a", " ", "b">> }
LogLines == { <<"c", "o", "m", "m", "i", "t", " ", "a">>, <<"c", "o", "m", "m", "i", "t", " ", "b", " ", "c">>, <<"A", "u", "t", "h", "o", "r", ":", " ", "x">>, <<"c", "o", "m", "m", "i", "t", "c">> }
ShowTexts == { <<"x">> }
RevTexts == { <<"a", "\n">>, <<"a", "\n", "\n">> }

BranchTexts == Texts(BranchLines, MaxBranchLines)
StatusTexts == Texts(StatusLines, MaxStatusLines)
DiffTexts == Texts(DiffLines, MaxDiffLines)
LogTexts == Texts(LogLines, MaxLogLines)

----------------------------------------------------------------------------
(* Types of the code.                                                      *)

\* ModType: the iota constants.
StatNew == 0
StatModified == 1
StatDeleted == 2

statMap == (<<"A">> :> StatNew) @@ (<<"M">> :> StatModified) @@ (<<"D">> :> StatDeleted)

\* The zero Repo struct.
NilRepo == [URL |-> <<>>, Name |-> <<>>, WorkDir |-> <<>>, RepoDir |-> <<>>]

\* Option setters and the GitOpts they fill in.
SetOptRebase == [set |-> "Rebase", s |-> <<>>]
SetCloneDir(s) == [set |-> "CloneDir", s |-> s]

RECURSIVE ApplyOpts(_, _)
ApplyOpts(optSetters, opts) ==
    IF optSetters = <<>> THEN opts
    ELSE ApplyOpts(Tail(optSetters),
                   IF Head(optSetters).set = "Rebase"
                   THEN [opts EXCEPT !.Rebase = TRUE]
                   ELSE [opts EXCEPT !.CloneDir = Head(optSetters).s])

getOpts(optSetters) == ApplyOpts(optSetters, [Rebase |-> FALSE, CloneDir |-> <<>>])

OptionLists == { <<>> } \cup { <<SetOptRebase, SetCloneDir(d)>> : d \in CloneDirs }

----------------------------------------------------------------------------
(* The environment: os.Stat and the git process.                           *)

StatResults == { "ok", "notexist", "error" }

\* What cmd.CombinedOutput() and cmd.ProcessState.Success() can report: a
\* zero exit with some output, a non-zero exit (an *ExitError), or a process
\* that could not be started.
ExecResults(outs) ==
    { [err |-> "nil", success |-> TRUE, out |-> o] : o \in outs }
    \cup { [err |-> "exit status 1", success |-> FALSE, out |-> <<>>],
           [err |-> "exec: not started", success |-> FALSE, out |-> <<>>] }

NoOutput == { <<>> }

ExecErr(x) == IF x.err = "nil" THEN Nil ELSE errorsNew(x.err)

Failed(x) == x.err # "nil" \/ ~x.success

\* doGit: the command's output, or the wrapped error and no output.
doGit(cmd, x) ==
    IF Failed(x)
    THEN [out |-> <<>>, err |-> errorsWrap(ExecErr(x), "failed to run command", cmd)]
    ELSE [out |-> x.out, err |-> Nil]

\* The record of one external command in `log`.
Ran(cmd, args, dir, x) ==
    [cmd |-> cmd, args |-> args, dir |-> dir, ok |-> ~Failed(x), out |-> x.out]

----------------------------------------------------------------------------
(* Calls and returns.                                                      *)

Ret(v, e) == [val |-> v, err |-> e, panic |-> FALSE]
NoValue == <<>>
NoRv == Ret(NoValue, Nil)
Panicked == [val |-> NoValue, err |-> Nil, panic |-> TRUE]

NoLocal ==
    [branch |-> <<>>, gitStat |-> "none", parentStat |-> "none",
     msg |-> <<>>, path |-> <<>>]

Entered(fn, a) == [fn |-> fn, arg |-> a]

\* The entry of a method called by the user of the package.
Enter(fn, a) ==
    /\ pc' = fn
    /\ op' = fn
    /\ arg' = a
    /\ stack' = <<>>
    /\ local' = NoLocal
    /\ rv' = NoRv
    /\ log' = <<>>
    /\ calls' = <<Entered(fn, a)>>
    /\ UNCHANGED <<handle, repo>>

\* A call that comes back to label `cont` of the caller.
Call(fn, a, cont) ==
    /\ pc' = fn
    /\ arg' = a
    /\ stack' = <<cont>> \o stack
    /\ calls' = Append(calls, Entered(fn, a))

\* `return f(...)`: the callee returns to the caller's caller.
TailCall(fn, a) ==
    /\ pc' = fn
    /\ arg' = a
    /\ stack' = stack
    /\ calls' = Append(calls, Entered(fn, a))

Return(r) ==
    /\ rv' = r
    /\ IF stack = <<>>
       THEN pc' = "idle" /\ stack' = stack
       ELSE pc' = Head(stack) /\ stack' = Tail(stack)
    /\ UNCHANGED <<arg, calls>>

\* A runtime panic unwinds every caller.
Panic ==
    /\ rv' = Panicked
    /\ pc' = "idle"
    /\ stack' = <<>>
    /\ UNCHANGED <<arg, calls>>

NoArg == [none |-> TRUE]

----------------------------------------------------------------------------
(* New: the name from the url, the Repo struct, CloneOrPull, and then the  *)
(* checkout of the branch asked for when another one is checked out.       *)

repoNameOf(url) ==
    LET parts == Split(url, Slash)
        repoName == parts[Len(parts)]
    IN  IF HasSuffix(repoName, DotGit)
        THEN Slice(repoName, 0, Len(repoName) - 4)
        ELSE repoName

newRepo(url, workDir, opts) ==
    [URL |-> url,
     WorkDir |-> workDir,
     Name |-> repoNameOf(url),
     RepoDir |-> IF opts.CloneDir # <<>>
                 THEN Join(workDir, opts.CloneDir)
                 ELSE Join(workDir, repoNameOf(url))]

New(url, branch, workDir, options) ==
    /\ op' = "New"
    /\ handle' = FALSE
    /\ repo' = newRepo(url, workDir, getOpts(options))
    /\ local' = [NoLocal EXCEPT !.branch = branch]
    /\ rv' = NoRv
    /\ log' = <<>>
    /\ pc' = "CloneOrPull"
    /\ arg' = NoArg
    /\ stack' = <<"New_80">>
    /\ calls' = <<Entered("New", [url |-> url, branch |-> branch, options |-> options]),
                  Entered("CloneOrPull", NoArg)>>

\* `return nil, err`: the caller gets no handle.
NewFails(e) ==
    /\ Return(Ret("nil", e))
    /\ handle' = FALSE
    /\ repo' = repo

NewSucceeds ==
    /\ Return(Ret("repo", Nil))
    /\ handle' = TRUE
    /\ repo' = repo

New_80 ==
    /\ pc = "New_80"
    /\ IF rv.err # Nil
       THEN NewFails(rv.err)
       ELSE /\ Call("Branch", NoArg, "New_85")
            /\ UNCHANGED <<rv, handle, repo>>
    /\ UNCHANGED <<op, local, log>>

\* New_85 with the comparison of the branches inverted.
New_85_Inverted ==
    /\ pc = "New_85"
    /\ IF rv.err # Nil
       THEN NewFails(rv.err)
       ELSE IF rv.val = local.branch
       THEN /\ Call("Checkout", [b |-> local.branch], "New_90")
            /\ UNCHANGED <<rv, handle, repo>>
       ELSE NewSucceeds
    /\ UNCHANGED <<op, local, log>>

New_85 ==
    /\ pc = "New_85"
    /\ IF rv.err # Nil
       THEN NewFails(rv.err)
       ELSE IF rv.val # local.branch
       THEN /\ Call("Checkout", [b |-> local.branch], "New_90")
            /\ UNCHANGED <<rv, handle, repo>>
       ELSE NewSucceeds
    /\ UNCHANGED <<op, local, log>>

New_90 ==
    /\ pc = "New_90"
    /\ IF rv.err # Nil THEN NewFails(rv.err) ELSE NewSucceeds
    /\ UNCHANGED <<op, local, log>>

----------------------------------------------------------------------------
(* Clone, Pull, CloneOrPull.                                               *)

Clone ==
    /\ pc = "Clone"
    /\ \E st \in StatResults :
        /\ local' = [local EXCEPT !.parentStat = st]
        /\ IF st = "notexist"
           THEN /\ Return(Ret(NoValue, errorsNew("parent dir does not exist")))
                /\ log' = log
           ELSE IF st = "error"
           THEN /\ Return(Ret(NoValue,
                              errorsWrap(errorsNew("stat"), "failed to stat parent dir", "")))
                /\ log' = log
           ELSE \E x \in ExecResults(NoOutput) :
                /\ log' = Append(log, Ran("clone", <<repo.URL, repo.RepoDir>>, repo.WorkDir, x))
                /\ IF Failed(x)
                   THEN Return(Ret(NoValue, errorsWrap(ExecErr(x), "failed to clone repo", "")))
                   ELSE /\ pc' = "Clone_112"
                        /\ UNCHANGED <<stack, arg, calls, rv>>
    /\ UNCHANGED <<op, handle, repo>>

\* Clone_112 dropping the result of the set-url command.
Clone_112_Dropped ==
    /\ pc = "Clone_112"
    /\ \E x \in ExecResults(NoOutput) :
        /\ log' = Append(log, Ran("remote set-url origin", <<repo.URL>>, repo.RepoDir, x))
        /\ Return(Ret(NoValue, Nil))
    /\ UNCHANGED <<op, handle, repo, local>>

Clone_112 ==
    /\ pc = "Clone_112"
    /\ \E x \in ExecResults(NoOutput) :
        /\ log' = Append(log, Ran("remote set-url origin", <<repo.URL>>, repo.RepoDir, x))
        /\ Return(Ret(NoValue, doGit("remote set-url origin", x).err))
    /\ UNCHANGED <<op, handle, repo, local>>

pullArgs(opts) == IF opts.Rebase THEN <<RebaseFlag>> ELSE <<>>

Pull ==
    /\ pc = "Pull"
    /\ \E x \in ExecResults(NoOutput) :
        /\ log' = Append(log, Ran("pull", pullArgs(getOpts(arg.options)), repo.RepoDir, x))
        /\ Return(Ret(NoValue, doGit("pull", x).err))
    /\ UNCHANGED <<op, handle, repo, local>>

\* CloneOrPull with the test of the stat error inverted.
CloneOrPull_Inverted ==
    /\ pc = "CloneOrPull"
    /\ \E st \in StatResults :
        /\ local' = [local EXCEPT !.gitStat = st]
        /\ IF st # "notexist"
           THEN TailCall("Clone", NoArg)
           ELSE Call("IsClean", NoArg, "CloneOrPull_132")
    /\ UNCHANGED <<op, handle, repo, rv, log>>

CloneOrPull ==
    /\ pc = "CloneOrPull"
    /\ \E st \in StatResults :
        /\ local' = [local EXCEPT !.gitStat = st]
        /\ IF st = "notexist"
           THEN TailCall("Clone", NoArg)
           ELSE Call("IsClean", NoArg, "CloneOrPull_132")
    /\ UNCHANGED <<op, handle, repo, rv, log>>

\* CloneOrPull_132 pulling without the rebase option.
CloneOrPull_132_PlainPull ==
    /\ pc = "CloneOrPull_132"
    /\ IF ~rv.val
       THEN TailCall("Pull", [options |-> <<>>]) /\ rv' = rv
       ELSE Return(Ret(NoValue, Nil))
    /\ UNCHANGED <<op, handle, repo, local, log>>

CloneOrPull_132 ==
    /\ pc = "CloneOrPull_132"
    /\ IF ~rv.val
       THEN TailCall("Pull", [options |-> <<SetOptRebase>>]) /\ rv' = rv
       ELSE Return(Ret(NoValue, Nil))
    /\ UNCHANGED <<op, handle, repo, local, log>>

----------------------------------------------------------------------------
(* Commit, Push, Add, AddCommitPush, Checkout.                             *)

\* One git command whose output is dropped and whose error is returned.
RunOnly(cmd, args) ==
    \E x \in ExecResults(NoOutput) :
        /\ log' = Append(log, Ran(cmd, args, repo.RepoDir, x))
        /\ Return(Ret(NoValue, doGit(cmd, x).err))

Commit ==
    /\ pc = "Commit"
    /\ RunOnly("commit", <<DashM, arg.msg>>)
    /\ UNCHANGED <<op, handle, repo, local>>

Push ==
    /\ pc = "Push"
    /\ RunOnly("push", <<>>)
    /\ UNCHANGED <<op, handle, repo, local>>

Add ==
    /\ pc = "Add"
    /\ RunOnly("add", <<arg.pattern>>)
    /\ UNCHANGED <<op, handle, repo, local>>

AddCommitPush ==
    /\ pc = "AddCommitPush"
    /\ local' = [local EXCEPT !.msg = arg.msg]
    /\ Call("Add", [pattern |-> Dot], "AddCommitPush_157")
    /\ UNCHANGED <<op, handle, repo, rv, log>>

\* AddCommitPush_157 going on to the commit whatever Add returned.
AddCommitPush_157_NoCheck ==
    /\ pc = "AddCommitPush_157"
    /\ Call("Commit", [msg |-> local.msg], "AddCommitPush_161") /\ rv' = rv
    /\ UNCHANGED <<op, handle, repo, local, log>>

AddCommitPush_157 ==
    /\ pc = "AddCommitPush_157"
    /\ IF rv.err # Nil
       THEN Return(Ret(NoValue, rv.err))
       ELSE Call("Commit", [msg |-> local.msg], "AddCommitPush_161") /\ rv' = rv
    /\ UNCHANGED <<op, handle, repo, local, log>>

AddCommitPush_161 ==
    /\ pc = "AddCommitPush_161"
    /\ IF rv.err # Nil
       THEN Return(Ret(NoValue, rv.err))
       ELSE TailCall("Push", NoArg) /\ rv' = rv
    /\ UNCHANGED <<op, handle, repo, local, log>>

Checkout ==
    /\ pc = "Checkout"
    /\ RunOnly("checkout", <<arg.b>>)
    /\ UNCHANGED <<op, handle, repo, local>>

----------------------------------------------------------------------------
(* Branch, CurrentCommit.                                                  *)

\* The loop over the lines: the first line that starts with "*", from its
\* third character on.  line[2:] of a line shorter than two characters is a
\* slice out of range: a runtime panic.
RECURSIVE branchOf(_)
branchOf(lines) ==
    IF lines = <<>>
    THEN Ret(<<>>, errorsNew("unexpected output from git command"))
    ELSE IF HasPrefix(Head(lines), Star)
    THEN IF 2 > Len(Head(lines))
         THEN Panicked
         ELSE Ret(SliceFrom(Head(lines), 2), Nil)
    ELSE branchOf(Tail(lines))

Branch ==
    /\ pc = "Branch"
    /\ \E x \in ExecResults(BranchTexts) :
        LET r == doGit("branch", x)
            res == branchOf(Split(r.out, NL))
        IN  /\ log' = Append(log, Ran("branch", <<>>, repo.RepoDir, x))
            /\ IF r.err # Nil
               THEN Return(Ret(<<>>, errorsWrap(r.err, "failed to get branche info", "")))
               ELSE IF res.panic THEN Panic ELSE Return(res)
    /\ UNCHANGED <<op, handle, repo, local>>

TrimSuffix(s, suffix) ==
    IF HasSuffix(s, suffix) THEN Slice(s, 0, Len(s) - Len(suffix)) ELSE s

CurrentCommit ==
    /\ pc = "CurrentCommit"
    /\ \E x \in ExecResults(RevTexts) :
        LET r == doGit("rev-parse", x)
        IN  /\ log' = Append(log, Ran("rev-parse", <<Head_>>, repo.RepoDir, x))
            /\ IF r.err # Nil
               THEN Return(Ret(<<>>, r.err))
               ELSE Return(Ret(TrimSuffix(r.out, NL), Nil))
    /\ UNCHANGED <<op, handle, repo, local>>

----------------------------------------------------------------------------
(* DiffStatus.                                                             *)

\* diffsOf taking every line of at least two fields.
RECURSIVE diffsOf_AtLeastTwo(_)
diffsOf_AtLeastTwo(lines) ==
    IF lines = <<>> THEN <<>>
    ELSE LET fields == Fields(Head(lines))
         IN  (IF Len(fields) >= 2 /\ fields[1] \in DOMAIN statMap
              THEN <<[Stat |-> statMap[fields[1]], Filename |-> fields[2]]>>
              ELSE <<>>)
             \o diffsOf_AtLeastTwo(Tail(lines))

\* The loop over the lines: a DiffStat for each line of exactly two fields
\* whose first field is a key of statMap.
RECURSIVE diffsOf(_)
diffsOf(lines) ==
    IF lines = <<>> THEN <<>>
    ELSE LET fields == Fields(Head(lines))
         IN  (IF Len(fields) = 2 /\ fields[1] \in DOMAIN statMap
              THEN <<[Stat |-> statMap[fields[1]], Filename |-> fields[2]]>>
              ELSE <<>>)
             \o diffsOf(Tail(lines))

DiffStatus ==
    /\ pc = "DiffStatus"
    /\ \E x \in ExecResults(DiffTexts) :
        LET r == doGit("diff --name-status", x)
        IN  /\ log' = Append(log, Ran("diff --name-status", <<arg.c1, arg.c2>>, repo.RepoDir, x))
            /\ IF r.err # Nil
               THEN Return(Ret(<<>>, r.err))
               ELSE Return(Ret(diffsOf(Split(r.out, NL)), Nil))
    /\ UNCHANGED <<op, handle, repo, local>>

----------------------------------------------------------------------------
(* ShowDeletedFile, ShowForCommit.                                         *)

\* secondCommit stopping at the first line that starts with "commit".
RECURSIVE secondCommit_First(_, _)
secondCommit_First(lines, commitID) ==
    IF lines = <<>> THEN <<>>
    ELSE IF HasPrefix(Head(lines), CommitWord)
    THEN IF commitID + 1 = 1
         THEN SliceFrom(Head(lines), Index(Head(lines), Space) + 1)
         ELSE secondCommit_First(Tail(lines), commitID + 1)
    ELSE secondCommit_First(Tail(lines), commitID)

\* The loop over the lines: `commitID` lines starting with "commit" have been
\* seen; the second one gives the commit, from after its first space on (from
\* its start when it has no space: Index is -1).
RECURSIVE secondCommit(_, _)
secondCommit(lines, commitID) ==
    IF lines = <<>> THEN <<>>
    ELSE IF HasPrefix(Head(lines), CommitWord)
    THEN IF commitID + 1 = 2
         THEN SliceFrom(Head(lines), Index(Head(lines), Space) + 1)
         ELSE secondCommit(Tail(lines), commitID + 1)
    ELSE secondCommit(Tail(lines), commitID)

ShowDeletedFile ==
    /\ pc = "ShowDeletedFile"
    /\ \E x \in ExecResults(LogTexts) :
        LET r == doGit("log --full-history -2 --", x)
        IN  /\ log' = Append(log, Ran("log --full-history -2 --", <<arg.path>>, repo.RepoDir, x))
            /\ IF r.err # Nil
               THEN Return(Ret(<<>>, r.err))
               ELSE /\ TailCall("ShowForCommit",
                                [commit |-> secondCommit(Split(r.out, NL), 0),
                                 path |-> arg.path])
                    /\ rv' = rv
    /\ UNCHANGED <<op, handle, repo, local>>

ShowForCommit ==
    /\ pc = "ShowForCommit"
    /\ \E x \in ExecResults(ShowTexts) :
        LET r == doGit("show", x)
        IN  /\ log' = Append(log, Ran("show", <<arg.commit \o Colon \o arg.path>>, repo.RepoDir, x))
            /\ Return(Ret(r.out, r.err))
    /\ UNCHANGED <<op, handle, repo, local>>

----------------------------------------------------------------------------
(* IsClean, CommitAuthor.                                                  *)

\* isCleanText with one of the two substrings being enough.
isCleanText_Either(out) == Contains(out, UpToDate) \/ Contains(out, WorkingDirectoryClean)

isCleanText(out) == Contains(out, UpToDate) /\ Contains(out, WorkingDirectoryClean)

IsClean ==
    /\ pc = "IsClean"
    /\ \E x \in ExecResults(NoOutput) :
        /\ log' = Append(log, Ran("fetch", <<>>, repo.RepoDir, x))
        /\ IF doGit("fetch", x).err # Nil
           THEN Return(Ret(FALSE, Nil))
           ELSE /\ pc' = "IsClean_262"
                /\ UNCHANGED <<stack, arg, calls, rv>>
    /\ UNCHANGED <<op, handle, repo, local>>

IsClean_262 ==
    /\ pc = "IsClean_262"
    /\ \E x \in ExecResults(StatusTexts) :
        LET r == doGit("status", x)
        IN  /\ log' = Append(log, Ran("status", <<>>, repo.RepoDir, x))
            /\ IF r.err # Nil
               THEN Return(Ret(FALSE, Nil))
               ELSE Return(Ret(isCleanText(r.out), Nil))
    /\ UNCHANGED <<op, handle, repo, local>>

CommitAuthor ==
    /\ pc = "CommitAuthor"
    /\ \E x \in ExecResults(ShowTexts) :
        LET r == doGit("log --format='%ae'", x)
        IN  /\ log' = Append(log, Ran("log --format='%ae'", <<arg.commit \o <<"^", "!">> >>, repo.RepoDir, x))
            /\ IF r.err # Nil
               THEN Return(Ret(<<>>, errorsWrap(r.err, "error retrieving author for commit", "")))
               ELSE Return(Ret(r.out, Nil))
    /\ UNCHANGED <<op, handle, repo, local>>

----------------------------------------------------------------------------
(* The caller: New at any time, the methods on the handle it returned.     *)

\* The user holds the handle New returned and no call is running.
CanCall == pc = "idle" /\ handle

CallClone ==
    /\ CanCall
    /\ Enter("Clone", NoArg)

CallPull ==
    /\ CanCall
    /\ \E o \in OptionLists : Enter("Pull", [options |-> o])

CallCloneOrPull ==
    /\ CanCall
    /\ Enter("CloneOrPull", NoArg)

CallCommit ==
    /\ CanCall
    /\ \E m \in Messages : Enter("Commit", [msg |-> m])

CallPush ==
    /\ CanCall
    /\ Enter("Push", NoArg)

CallAdd ==
    /\ CanCall
    /\ \E p \in Patterns : Enter("Add", [pattern |-> p])

CallAddCommitPush ==
    /\ CanCall
    /\ \E m \in Messages : Enter("AddCommitPush", [msg |-> m])

CallCheckout ==
    /\ CanCall
    /\ \E b \in Branches : Enter("Checkout", [b |-> b])

CallBranch ==
    /\ CanCall
    /\ Enter("Branch", NoArg)

CallCurrentCommit ==
    /\ CanCall
    /\ Enter("CurrentCommit", NoArg)

CallDiffStatus ==
    /\ CanCall
    /\ \E c1, c2 \in Commits : Enter("DiffStatus", [c1 |-> c1, c2 |-> c2])

CallShowDeletedFile ==
    /\ CanCall
    /\ \E p \in Paths : Enter("ShowDeletedFile", [path |-> p])

CallShowForCommit ==
    /\ CanCall
    /\ \E c \in Commits, p \in Paths : Enter("ShowForCommit", [commit |-> c, path |-> p])

CallIsClean ==
    /\ CanCall
    /\ Enter("IsClean", NoArg)

CallCommitAuthor ==
    /\ CanCall
    /\ \E c \in Commits : Enter("CommitAuthor", [commit |-> c])

CallNew ==
    /\ pc = "idle"
    /\ \E url \in URLs, branch \in Branches, workDir \in WorkDirs, options \in OptionLists :
           New(url, branch, workDir, options)

Init ==
    /\ pc = "idle"
    /\ stack = <<>>
    /\ op = "none"
    /\ handle = FALSE
    /\ repo = NilRepo
    /\ arg = NoArg
    /\ local = NoLocal
    /\ rv = NoRv
    /\ log = <<>>
    /\ calls = <<>>

Next ==
    \/ CallNew \/ New_80 \/ New_85 \/ New_90
    \/ CallClone \/ Clone \/ Clone_112
    \/ CallPull \/ Pull
    \/ CallCloneOrPull \/ CloneOrPull \/ CloneOrPull_132
    \/ CallCommit \/ Commit
    \/ CallPush \/ Push
    \/ CallAdd \/ Add
    \/ CallAddCommitPush \/ AddCommitPush \/ AddCommitPush_157 \/ AddCommitPush_161
    \/ CallCheckout \/ Checkout
    \/ CallBranch \/ Branch
    \/ CallCurrentCommit \/ CurrentCommit
    \/ CallDiffStatus \/ DiffStatus
    \/ CallShowDeletedFile \/ ShowDeletedFile \/ ShowForCommit
    \/ CallShowForCommit
    \/ CallIsClean \/ IsClean \/ IsClean_262
    \/ CallCommitAuthor \/ CommitAuthor

Spec == Init /\ [][Next]_vars

----------------------------------------------------------------------------
(* Reading the history of the current operation.                           *)

At(c) == { i \in 1..Len(log) : log[i].cmd = c }
Count(c) == Cardinality(At(c))
The(c) == log[CHOOSE i \in At(c) : TRUE]
CalledAt(fn) == { i \in 1..Len(calls) : calls[i].fn = fn }
Called(fn) == CalledAt(fn) # {}
Idle == pc = "idle"

\* sub occurs in s, stated without the search loop.
Occurs(sub, s) == \E i \in 0..Len(s) : i + Len(sub) <= Len(s) /\ SubSeq(s, i + 1, i + Len(sub)) = sub

\* The lines of a text: the pieces between its newlines.
LinesOf(out) == Split(out, NL)

----------------------------------------------------------------------------
(* C1.  New, when os.Stat reports that RepoDir/.git does not exist: the    *)
(* first external command of the run is the clone, so no fetch, status,    *)
(* pull, branch or checkout comes before it; and in no run of New does a   *)
(* pull or a checkout come before a clone.                                 *)
C1_CloneFirst ==
    op = "New" =>
        /\ (local.gitStat = "notexist" /\ log # <<>>) => log[1].cmd = "clone"
        /\ local.gitStat = "notexist" => Called("Clone") /\ ~Called("IsClean")
        /\ \A i, j \in 1..Len(log) :
               (i < j /\ log[j].cmd = "clone") => log[i].cmd \notin {"pull", "checkout"}

C1_Witness ==
    /\ op = "New"
    /\ local.gitStat = "notexist"
    /\ Len(log) = 4
    /\ log[1].cmd = "clone"
    /\ log[3].cmd = "branch"
    /\ log[4].cmd = "checkout"

----------------------------------------------------------------------------
\* The branch command ran and a branch name was read from its output.
BranchRead ==
    /\ Count("branch") = 1
    /\ The("branch").ok
    /\ ~branchOf(LinesOf(The("branch").out)).panic
    /\ branchOf(LinesOf(The("branch").out)).err = Nil

(* C2.  New, once the branch was read: a checkout is run exactly when the  *)
(* branch read differs from the branch asked for; it is run once, for the  *)
(* branch asked for, and when it fails New returns its error and no handle.*)
C2_CheckoutIffDiffers ==
    (op = "New" /\ BranchRead) =>
        LET differs == branchOf(LinesOf(The("branch").out)).val # local.branch
        IN  /\ Count("checkout") <= 1
            /\ Count("checkout") = 1 =>
                   /\ differs
                   /\ The("checkout").args = <<local.branch>>
                   /\ log[Len(log)].cmd = "checkout"
            /\ Idle => (Count("checkout") = 1 <=> differs)
            /\ (Idle /\ differs /\ ~The("checkout").ok) =>
                   rv.val = "nil" /\ rv.err # Nil /\ ~handle
            /\ (Idle /\ ~differs) => rv.val = "repo" /\ rv.err = Nil /\ handle

C2_Witness ==
    /\ op = "New"
    /\ BranchRead
    /\ Idle
    /\ Count("checkout") = 1
    /\ ~The("checkout").ok
    /\ rv.val = "nil"

----------------------------------------------------------------------------
\* CloneOrPull has just returned, to New or to the caller.
CloneOrPullReturned ==
    \/ op = "CloneOrPull" /\ Idle
    \/ op = "New" /\ pc = "New_80"

\* What IsClean answered, read from the commands it ran.
WasClean ==
    /\ Count("fetch") = 1 /\ The("fetch").ok
    /\ Count("status") = 1 /\ The("status").ok
    /\ Occurs(UpToDate, The("status").out)
    /\ Occurs(WorkingDirectoryClean, The("status").out)

(* C3.  CloneOrPull, when it has returned.  If os.Stat reported that       *)
(* RepoDir/.git does not exist it went to Clone (which runs the clone      *)
(* command when the parent directory can be stat'ed) and ran no fetch,     *)
(* status or pull.  Otherwise it ran no clone; when IsClean was false it   *)
(* ran one pull, with --rebase whatever options New was given, and         *)
(* returned that pull's result; when IsClean was true it ran no pull and   *)
(* returned nil.                                                           *)
C3_CloneOrPull ==
    CloneOrPullReturned =>
        IF local.gitStat = "notexist"
        THEN /\ Called("Clone")
             /\ Count("clone") = (IF local.parentStat = "ok" THEN 1 ELSE 0)
             /\ Count("fetch") = 0 /\ Count("status") = 0 /\ Count("pull") = 0
        ELSE /\ ~Called("Clone") /\ Count("clone") = 0
             /\ Count("fetch") = 1
             /\ IF WasClean
                THEN Count("pull") = 0 /\ rv.err = Nil
                ELSE /\ Count("pull") = 1
                     /\ The("pull").args = <<RebaseFlag>>
                     /\ log[Len(log)].cmd = "pull"
                     /\ rv.err = Nil <=> The("pull").ok

\* New was given no rebase option, the working copy was not clean, and the
\* pull was run with --rebase and failed.
C3_Witness ==
    /\ op = "New"
    /\ pc = "New_80"
    /\ calls[1].arg.options = <<>>
    /\ local.gitStat = "ok"
    /\ Count("status") = 1 /\ The("status").ok
    /\ Count("pull") = 1
    /\ The("pull").args = <<RebaseFlag>>
    /\ rv.err # Nil

----------------------------------------------------------------------------
\* IsClean has just returned, to CloneOrPull or to the caller.
IsCleanReturned ==
    \/ op = "IsClean" /\ Idle
    \/ pc = "CloneOrPull_132"

(* C4.  IsClean, when it has returned: it returns a boolean and no error,  *)
(* and the boolean is TRUE exactly when the fetch succeeded, the status    *)
(* succeeded and the status output contains both "up-to-date" and          *)
(* "working directory clean".                                              *)
C4_IsClean ==
    IsCleanReturned =>
        /\ ~rv.panic
        /\ rv.err = Nil
        /\ rv.val \in BOOLEAN
        /\ rv.val = WasClean
        /\ ~The("fetch").ok => Count("status") = 0

C4_Witness ==
    /\ IsCleanReturned
    /\ rv.val = TRUE
    /\ The("status").out # UpToDate \o NL \o WorkingDirectoryClean \o NL

----------------------------------------------------------------------------
\* Branch has ended (returned or panicked) after a branch command that succeeded.
BranchReturned == op = "Branch" /\ Idle /\ Count("branch") = 1 /\ The("branch").ok

StarLines(out) == { i \in 1..Len(LinesOf(out)) : HasPrefix(LinesOf(out)[i], Star) }

FirstStarLine(out) ==
    LinesOf(out)[CHOOSE i \in StarLines(out) : \A j \in StarLines(out) : i <= j]

(* C5.  Branch, for every output of the branch command: it does not panic; *)
(* when a line starts with "*" it returns what follows the first two       *)
(* characters of the first such line, and that is not the empty string;    *)
(* when no line starts with "*" it returns the unexpected-output error.    *)
C5_BranchTotal ==
    BranchReturned =>
        /\ ~rv.panic
        /\ IF StarLines(The("branch").out) = {}
           THEN rv.err = errorsNew("unexpected output from git command")
           ELSE /\ rv.err = Nil
                /\ rv.val # <<>>
                /\ rv.val = SubSeq(FirstStarLine(The("branch").out), 3,
                                   Len(FirstStarLine(The("branch").out)))

----------------------------------------------------------------------------
\* DiffStatus has returned after a diff command that succeeded.
DiffStatusReturned ==
    op = "DiffStatus" /\ Idle /\ Count("diff --name-status") = 1 /\ The("diff --name-status").ok

KindOf(code) ==
    CASE code = <<"A">> -> StatNew
      [] code = <<"M">> -> StatModified
      [] code = <<"D">> -> StatDeleted

Accepted(line) ==
    /\ Len(Fields(line)) = 2
    /\ Fields(line)[1] \in { <<"A">>, <<"M">>, <<"D">> }

(* C6.  DiffStatus, for every output of the diff command: it returns no    *)
(* error and, in the order of the lines, one record for each line that has *)
(* exactly two whitespace-separated fields of which the first is A, M or D *)
(* (Added, Modified, Deleted), with the second field as the file name;     *)
(* every other line gives no record.                                       *)
C6_DiffStatus ==
    DiffStatusReturned =>
        LET acc == SelectSeq(LinesOf(The("diff --name-status").out), Accepted)
        IN  /\ ~rv.panic
            /\ rv.err = Nil
            /\ Len(rv.val) = Len(acc)
            /\ \A i \in 1..Len(acc) :
                   /\ rv.val[i].Stat = KindOf(Fields(acc[i])[1])
                   /\ rv.val[i].Filename = Fields(acc[i])[2]
                   /\ rv.val[i].Stat \in { StatNew, StatModified, StatDeleted }

\* A rename line and a line of three fields are dropped, one line is kept.
C6_Witness ==
    /\ DiffStatusReturned
    /\ Len(LinesOf(The("diff --name-status").out)) = 3
    /\ \E i \in 1..2 : ~Accepted(LinesOf(The("diff --name-status").out)[i])
    /\ Len(rv.val) = 1
    /\ rv.val[1].Stat = StatDeleted

----------------------------------------------------------------------------
\* ShowDeletedFile, from the moment its log command succeeded.
HistoryRead ==
    /\ op = "ShowDeletedFile"
    /\ Count("log --full-history -2 --") = 1
    /\ The("log --full-history -2 --").ok

CommitLines(out) == SelectSeq(LinesOf(out), LAMBDA l : HasPrefix(l, CommitWord))

\* id is what follows the first space of line.
AfterFirstSpace(line, id) ==
    \E k \in 1..Len(line) :
        /\ line[k] = " "
        /\ \A j \in 1..(k - 1) : line[j] # " "
        /\ id = SubSeq(line, k + 1, Len(line))

(* C7.  ShowDeletedFile, when the log command succeeded: ShowForCommit is  *)
(* called once, with the path asked for and with the commit taken from the *)
(* second line of the output that starts with "commit": what follows the   *)
(* first space of that line.  With fewer than two such lines the commit is *)
(* the empty string and ShowForCommit is called all the same.              *)
C7_ShowDeletedFile ==
    HistoryRead =>
        LET cl == CommitLines(The("log --full-history -2 --").out)
            path == calls[1].arg.path
        IN  /\ Cardinality(CalledAt("ShowForCommit")) = 1
            /\ calls[Len(calls)].fn = "ShowForCommit"
            /\ calls[Len(calls)].arg.path = path
            /\ Len(cl) < 2 => calls[Len(calls)].arg.commit = <<>>
            /\ (Len(cl) >= 2 /\ Occurs(Space, cl[2])) =>
                   AfterFirstSpace(cl[2], calls[Len(calls)].arg.commit)
            /\ Count("show") <= 1
            /\ Idle => /\ Count("show") = 1
                       /\ The("show").args =
                              <<calls[Len(calls)].arg.commit \o Colon \o path>>
                       /\ ~rv.panic

\* Three lines start with "commit"; the second of them is "commit b c".
C7_Witness ==
    /\ HistoryRead
    /\ Idle
    /\ Len(CommitLines(The("log --full-history -2 --").out)) = 3
    /\ calls[Len(calls)].arg.commit = <<"b", " ", "c">>

\* Only one line starts with "commit": the commit is empty and the show runs.
C7_WitnessShort ==
    /\ HistoryRead
    /\ Idle
    /\ Len(CommitLines(The("log --full-history -2 --").out)) = 1
    /\ The("show").args = << Colon \o calls[1].arg.path >>

----------------------------------------------------------------------------
(* C8.  AddCommitPush runs add ., commit -m msg and push in this order,    *)
(* each at most once, and stops at the first one that fails: every command *)
(* before the last one run succeeded.  It returns the error of the command *)
(* that failed, and nil only when the three of them succeeded.             *)
C8_AddCommitPush ==
    op = "AddCommitPush" =>
        LET msg == calls[1].arg.msg
            want == << [cmd |-> "add", args |-> <<Dot>>],
                       [cmd |-> "commit", args |-> <<DashM, msg>>],
                       [cmd |-> "push", args |-> <<>>] >>
        IN  /\ Len(log) <= 3
            /\ \A i \in 1..Len(log) :
                   /\ log[i].cmd = want[i].cmd
                   /\ log[i].args = want[i].args
                   /\ i < Len(log) => log[i].ok
            /\ Idle =>
                   /\ ~rv.panic
                   /\ log # <<>>
                   /\ Len(log) < 3 => ~log[Len(log)].ok
                   /\ rv.err = Nil <=> (Len(log) = 3 /\ log[3].ok)
                   /\ ~log[Len(log)].ok =>
                          /\ rv.err # Nil
                          /\ Head(rv.err) = <<"failed to run command", log[Len(log)].cmd>>

\* The add succeeded, the commit failed: no push, the commit's error.
C8_Witness ==
    /\ op = "AddCommitPush"
    /\ Idle
    /\ Len(log) = 2
    /\ log[1].ok
    /\ ~log[2].ok
    /\ Head(rv.err) = <<"failed to run command", "commit">>

----------------------------------------------------------------------------
(* C9.  New with the empty url runs no clone, pull, branch or checkout     *)
(* command, and ends by returning an error and no handle.                  *)
C9_EmptyURLRejected ==
    (op = "New" /\ calls[1].arg.url = <<>>) =>
        /\ \A i \in 1..Len(log) : log[i].cmd \notin {"clone", "pull", "branch", "checkout"}
        /\ Idle => rv.val = "nil" /\ rv.err # Nil /\ ~handle

----------------------------------------------------------------------------
\* Clone has just returned, to New or to the caller.
CloneReturned ==
    /\ Called("Clone")
    /\ \/ op \in {"Clone", "CloneOrPull"} /\ Idle
       \/ op = "New" /\ pc = "New_80"

(* C10.  Clone.  When the parent directory does not exist it fails with    *)
(* "parent dir does not exist", on another stat error with "failed to stat *)
(* parent dir", in both cases without running the clone command.  When the *)
(* clone command fails it fails with "failed to clone repo" and the        *)
(* set-url command is not run.  The set-url command is run only after a    *)
(* clone that succeeded, with the URL of the Repo, and Clone returns nil    *)
(* only when both commands succeeded.                                      *)
C10_Clone ==
    Called("Clone") =>
        /\ Count("clone") <= 1
        /\ Count("remote set-url origin") <= 1
        /\ local.parentStat \in {"notexist", "error"} => Count("clone") = 0
        /\ Count("clone") = 1 =>
               /\ The("clone").args = <<repo.URL, repo.RepoDir>>
               /\ The("clone").dir = repo.WorkDir
        /\ Count("remote set-url origin") = 1 =>
               /\ Count("clone") = 1
               /\ The("clone").ok
               /\ The("remote set-url origin").args = <<repo.URL>>
        /\ CloneReturned =>
               /\ local.parentStat = "notexist" =>
                      rv.err = errorsNew("parent dir does not exist")
               /\ local.parentStat = "error" =>
                      rv.err # Nil /\ Head(rv.err)[1] = "failed to stat parent dir"
               /\ (Count("clone") = 1 /\ ~The("clone").ok) =>
                      /\ rv.err # Nil /\ Head(rv.err)[1] = "failed to clone repo"
                      /\ Count("remote set-url origin") = 0
               /\ (Count("clone") = 1 /\ The("clone").ok) =>
                      Count("remote set-url origin") = 1
               /\ rv.err = Nil <=>
                      /\ Count("clone") = 1 /\ The("clone").ok
                      /\ Count("remote set-url origin") = 1
                      /\ The("remote set-url origin").ok

\* The clone succeeded, the set-url failed, and Clone returned its error.
C10_Witness ==
    /\ CloneReturned
    /\ Count("clone") = 1 /\ The("clone").ok
    /\ Count("remote set-url origin") = 1
    /\ ~The("remote set-url origin").ok
    /\ rv.err # Nil

====
